---- MODULE Spec2Model ----
(***************************************************************************)
(* 96boards low-speed connector bus (lscon), its bus type (ls_bus_type)    *)
(* and the secure96 mezzanine driver.                                      *)
(*                                                                         *)
(* Strings are sequences of one-character strings, so that strstrip and    *)
(* the "mezzanine%d" format are computed and not assumed.                  *)
(***************************************************************************)
EXTENDS Integers, Sequences, FiniteSets, TLC

(* ------------------------------ bounds -------------------------------- *)
MaxIds == 3          \* size of the modelled id pool (ids 0 .. MaxIds-1)
MaxFaults == 1       \* injected provider failures per operation
MaxSpiRefs == 1      \* cap on leaked SPI controller references
MaxNodes == 2        \* child nodes of the connector node

(* ------------------------------ strings ------------------------------- *)
S_secure96 == <<"s","e","c","u","r","e","9","6">>
S_mezzanine == <<"m","e","z","z","a","n","i","n","e">>
S_foo == <<"f","o","o">>
NoName == <<"\\0">>         \* the NULL name pointer handed to lscon_add_device

isspace(c) == c \in {" ", "\n", "\t"}

RECURSIVE skip_spaces(_)
skip_spaces(s) ==
  IF s # <<>> /\ isspace(Head(s)) THEN skip_spaces(Tail(s)) ELSE s

RECURSIVE trim_end(_)
trim_end(s) ==
  IF s # <<>> /\ isspace(s[Len(s)]) THEN trim_end(SubSeq(s, 1, Len(s) - 1)) ELSE s

strstrip(s) == skip_spaces(trim_end(s))

Digit(n) == <<"0","1","2","3","4","5","6","7","8","9">>[n + 1]

RECURSIVE DecStr(_)
DecStr(n) == IF n < 10 THEN <<Digit(n)>> ELSE DecStr(n \div 10) \o <<Digit(n % 10)>>

\* dev_set_name(&lsdev->dev, "%s", name) / dev_set_name(..., "mezzanine%d", id)
dev_set_name_bad(name, id) ==
  IF name # NoName THEN name ELSE S_mezzanine

dev_set_name(name, id) ==
  IF name # NoName THEN name ELSE S_mezzanine \o DecStr(id)

(* --------------------------- small helpers ---------------------------- *)
RECURSIVE Reverse(_)
Reverse(s) == IF s = <<>> THEN <<>> ELSE Reverse(Tail(s)) \o <<Head(s)>>

Range(s) == {s[i] : i \in 1..Len(s)}

\* one entry of the operation log
Ev(op, dev, res, ok) == [op |-> op, dev |-> dev, res |-> res, ok |-> ok]

\* a fault is <<k, point>>: the call `point` made for the k-th device of the
\* running operation fails (k = 0: a call of the connector itself)
Fails(f, k, p) == <<k, p>> \in f

(* ------------------ secure96: resources of the driver ------------------ *)
\* acquisition steps of secure96_probe, in program order
Steps == <<"ledF","ledG","ledH","ledI","leds","wp","eeprom","crypto","hash",
           "reset","irq","tpm">>

ledinfos == <<"ledF","ledG","ledH","ledI">>

\* enum ls_gpio pin used by a step
PinOf(res) ==
  CASE res = "ledF" -> "F" [] res = "ledG" -> "G" [] res = "ledH" -> "H"
    [] res = "ledI" -> "I" [] res = "wp" -> "B" [] res = "reset" -> "D"
    [] res = "irq" -> "C" [] OTHER -> "none"

\* struct secure96 (a TRUE field is a non-NULL handle); acq is the history
\* of the steps this probe acquired, in order
NoSec == [leds |-> 0, leds_device |-> FALSE, eeprom |-> FALSE, crypto |-> FALSE,
          hash |-> FALSE, tpm_reset |-> FALSE, tpm_irq |-> FALSE, tpm |-> FALSE,
          acq |-> <<>>]

\* the state a driver call works on: GPIO lines claimed on the connector
\* device, clients on the i2c0 adapter, the TPM on the SPI controller, the
\* leds-gpio platform devices, secure96_eeprom_pdata.wp_gpiod, the log
\* st = [gpio, i2c, tpm, leds, wp, ev, sec]

\* ls_get_gpiod: devm_gpiod_get_index on the connector device
ls_get_gpiod_ok(st, pin, k, f, res) == pin \notin st.gpio /\ ~Fails(f, k, res)

Acquire(st, dev, res) ==
  [st EXCEPT !.ev = Append(@, Ev("acq", dev, res, TRUE)),
             !.sec.acq = Append(@, res)]

\* ls_put_gpiod: devm_gpiod_put on the connector device; ok records whether
\* the line was claimed when it was put
ls_put_gpiod(st, dev, res) ==
  [st EXCEPT !.gpio = @ \ {PinOf(res)},
             !.ev = Append(@, Ev("rel", dev, res, PinOf(res) \in st.gpio))]

\* i2c_unregister_device(client): nothing to unregister for a NULL client
i2c_unregister_device(st, dev, res, handle) ==
  IF handle
  THEN [st EXCEPT !.i2c = @ \ {res}, !.ev = Append(@, Ev("rel", dev, res, res \in st.i2c))]
  ELSE [st EXCEPT !.ev = Append(@, Ev("relnull", dev, res, FALSE))]

platform_device_unregister(st, dev) ==
  [st EXCEPT !.leds = @ - 1, !.ev = Append(@, Ev("rel", dev, "leds", TRUE))]

spi_unregister_device(st, dev) ==
  [st EXCEPT !.tpm = FALSE, !.ev = Append(@, Ev("rel", dev, "tpm", st.tpm))]

\* if (secure96_eeprom_pdata.wp_gpiod) ls_put_gpiod(ls, ...wp_gpiod)
put_wp(st, dev) == IF st.wp THEN ls_put_gpiod(st, dev, "wp") ELSE st

\* for (i = 0; i < ARRAY_SIZE(ledinfos); i++) ls_put_gpiod(ls, leds[i].gpiod)
put_leds(st, dev) ==
  ls_put_gpiod(ls_put_gpiod(ls_put_gpiod(ls_put_gpiod(st, dev, "ledF"),
               dev, "ledG"), dev, "ledH"), dev, "ledI")

\* the cleanup labels at the end of secure96_probe, entered at `label`
out_unreg_leds(st, dev) == put_leds(platform_device_unregister(st, dev), dev)

out_remove_eeprom(st, dev) ==
  out_unreg_leds(put_wp(i2c_unregister_device(st, dev, "eeprom", st.sec.eeprom), dev), dev)

out_remove_crypto(st, dev) ==
  out_remove_eeprom(i2c_unregister_device(st, dev, "crypto", st.sec.crypto), dev)

out_remove_hash(st, dev) ==
  out_remove_crypto(i2c_unregister_device(st, dev, "hash", st.sec.hash), dev)

out_remove_tpm_reset(st, dev) == out_remove_hash(ls_put_gpiod(st, dev, "reset"), dev)

out_remove_tpm_irq(st, dev) == out_remove_tpm_reset(ls_put_gpiod(st, dev, "irq"), dev)

(* --------------------------- secure96_probe ---------------------------- *)
\* a probe or an add returns [w, ret]; ret is "0" or the errno
Ret(w, ret) == [w |-> w, ret |-> ret]

\* i2c_new_device(ls->i2c0, info) / spi_new_device(ls->spi, &secure96_tpm)
i2c_new_device_ok(st, res, k, f) == res \notin st.i2c /\ ~Fails(f, k, res)

spi_new_device_ok(st, k, f) == ~st.tpm /\ ~Fails(f, k, "tpm")

probe_tpm(st, dev, k, f) ==
  IF ~ls_get_gpiod_ok(st, "C", k, f, "irq")
  THEN Ret(out_remove_tpm_reset(st, dev), "ENODEV")
  ELSE LET s1 == Acquire([st EXCEPT !.gpio = @ \cup {"C"}, !.sec.tpm_irq = TRUE], dev, "irq")
       IN IF ~spi_new_device_ok(s1, k, f)
          THEN Ret(out_remove_tpm_irq(s1, dev), "ENODEV")
          ELSE Ret(Acquire([s1 EXCEPT !.tpm = TRUE, !.sec.tpm = TRUE], dev, "tpm"), "0")

probe_reset(st, dev, k, f) ==
  IF ~ls_get_gpiod_ok(st, "D", k, f, "reset")
  THEN Ret(out_remove_hash(st, dev), "ENODEV")
  ELSE probe_tpm(Acquire([st EXCEPT !.gpio = @ \cup {"D"}, !.sec.tpm_reset = TRUE],
                         dev, "reset"), dev, k, f)

\* sec->hash = i2c_new_device(...); if (!sec->eeprom) goto out_remove_crypto;
probe_hash(st, dev, k, f) ==
  LET s1 == IF i2c_new_device_ok(st, "hash", k, f)
            THEN Acquire([st EXCEPT !.i2c = @ \cup {"hash"}, !.sec.hash = TRUE], dev, "hash")
            ELSE st
  IN IF ~s1.sec.eeprom THEN Ret(out_remove_crypto(s1, dev), "ENODEV")
     ELSE probe_reset(s1, dev, k, f)

\* sec->crypto = i2c_new_device(...); if (!sec->eeprom) goto out_remove_eeprom;
probe_crypto(st, dev, k, f) ==
  LET s1 == IF i2c_new_device_ok(st, "crypto", k, f)
            THEN Acquire([st EXCEPT !.i2c = @ \cup {"crypto"}, !.sec.crypto = TRUE], dev, "crypto")
            ELSE st
  IN IF ~s1.sec.eeprom THEN Ret(out_remove_eeprom(s1, dev), "ENODEV")
     ELSE probe_hash(s1, dev, k, f)

\* the write-protect line is optional: a failure only logs an error and the
\* previous value of secure96_eeprom_pdata.wp_gpiod stays
probe_eeprom(st, dev, k, f) ==
  LET s1 == IF ls_get_gpiod_ok(st, "B", k, f, "wp")
            THEN Acquire([st EXCEPT !.gpio = @ \cup {"B"}, !.wp = TRUE], dev, "wp")
            ELSE st
  IN IF ~i2c_new_device_ok(s1, "eeprom", k, f)
     THEN Ret(out_unreg_leds(s1, dev), "ENODEV")
     ELSE probe_crypto(Acquire([s1 EXCEPT !.i2c = @ \cup {"eeprom"}, !.sec.eeprom = TRUE],
                               dev, "eeprom"), dev, k, f)

probe_leds_device(st, dev, k, f) ==
  IF Fails(f, k, "leds") THEN Ret(st, "ENODEV")
  ELSE probe_eeprom(Acquire([st EXCEPT !.leds = @ + 1, !.sec.leds_device = TRUE], dev, "leds"),
                    dev, k, f)

RECURSIVE probe_led_loop(_, _, _, _, _)
probe_led_loop(st, dev, k, f, i) ==
  IF i > Len(ledinfos) THEN probe_leds_device(st, dev, k, f)
  ELSE IF ~ls_get_gpiod_ok(st, PinOf(ledinfos[i]), k, f, ledinfos[i])
       THEN Ret(st, "ENODEV")
       ELSE probe_led_loop(Acquire([st EXCEPT !.gpio = @ \cup {PinOf(ledinfos[i])},
                                               !.sec.leds = i], dev, ledinfos[i]),
                           dev, k, f, i + 1)

secure96_probe(st, dev, k, f) ==
  IF Fails(f, k, "kzalloc") THEN Ret(st, "ENOMEM")
  ELSE probe_led_loop([st EXCEPT !.sec = NoSec], dev, k, f, 1)

(* --------------------------- secure96_remove --------------------------- *)
secure96_remove(st, dev) ==
  LET s1 == spi_unregister_device(st, dev)
      s2 == ls_put_gpiod(s1, dev, "irq")
      s3 == ls_put_gpiod(s2, dev, "reset")
      s4 == i2c_unregister_device(s3, dev, "hash", s3.sec.hash)
      s5 == i2c_unregister_device(s4, dev, "crypto", s4.sec.crypto)
      s6 == i2c_unregister_device(s5, dev, "eeprom", s5.sec.eeprom)
      s7 == IF s6.wp THEN ls_put_gpiod(s6, dev, "wp") ELSE s6
      s8 == platform_device_unregister(s7, dev)
      s9 == ls_put_gpiod(s8, dev, "ledF")
      s10 == ls_put_gpiod(s9, dev, "ledG")
      s11 == ls_put_gpiod(s10, dev, "ledH")
  IN ls_put_gpiod(s11, dev, "ledI")

(* ------------------------- bus, drivers, devices ----------------------- *)
\* the ls_driver modules that exist: secure96_driver
Drivers == {S_secure96}

\* .of_match_table of a driver
of_match_table(drv) == IF drv = S_secure96 THEN "96boards,secure96" ELSE "none"

\* a device_node of the device tree; NoNode is the NULL of_node
NoNode == [idx |-> 0, compatible |-> "none"]

\* of_driver_match_device: needs an of_node and a matching compatible
of_driver_match_device(d, drv) ==
  d.node # NoNode /\ d.node.compatible = of_match_table(drv)

\* ls_match: first on the OF node, second on the name
ls_match_bad(d, drv) == of_driver_match_device(d, drv)

ls_match(d, drv) == of_driver_match_device(d, drv) \/ d.name = drv

\* ls_inject_match: !strcmp(devname, drv->name)
ls_inject_match(drv, devname) == devname = drv

\* ida_simple_get(&ls_device_ida, 0, 0, GFP_KERNEL): the lowest free id
FreeIds(ida) == (0 .. MaxIds - 1) \ ida

ida_simple_get_bad(ida) == Cardinality(ida)

ida_simple_get(ida) == CHOOSE i \in FreeIds(ida) : \A j \in FreeIds(ida) : i <= j

\* ida_simple_remove(&ls_device_ida, id)
ida_simple_remove_bad(ida, id) == ida

ida_simple_remove(ida, id) == ida \ {id}

\* struct ls_connector: the handles of the three upstream busses
NoLs == [i2c0 |-> "NULL", i2c1 |-> "NULL", spi |-> "NULL"]

\* the world a bus operation works on
\* w = [bus, ida, gpio, i2c, tpm, leds, wp, ev, sec]

\* ls_driver_probe: if (lsdrv->probe) return lsdrv->probe(lsdev)
ls_driver_probe(w, id, k, f) ==
  secure96_probe([w EXCEPT !.ev = Append(@, Ev("probe", id, "secure96", TRUE))], id, k, f)

\* ls_driver_remove: if (lsdrv->remove) lsdrv->remove(lsdev)
ls_driver_remove(w, id) ==
  secure96_remove([w EXCEPT !.ev = Append(@, Ev("remove", id, "secure96", TRUE))], id)

\* the driver core's bus_probe_device for the device at position idx of the
\* bus: the first registered driver that ls_match accepts is probed; the
\* device is bound if the probe returns 0 and stays unbound otherwise
bus_probe_device(w, idx, k, f, drvs) ==
  LET d == w.bus[idx]
      cand == {drv \in drvs : ls_match(d, drv)}
  IN IF d.drv # <<>> \/ cand = {} THEN w
     ELSE LET drv == CHOOSE x \in cand : TRUE
              r == ls_driver_probe(w, d.id, k, f)
          IN IF r.ret = "0"
             THEN [r.w EXCEPT !.bus[idx].drv = drv, !.bus[idx].sec = r.w.sec,
                              !.sec = NoSec,
                              !.ev = Append(@, Ev("probe_ret", d.id, r.ret, TRUE))]
             ELSE [r.w EXCEPT !.sec = NoSec,
                              !.ev = Append(@, Ev("probe_ret", d.id, r.ret, FALSE))]

\* device_add fails when the name is already taken in the parent's directory
device_add_ok(w, name, k, f) ==
  ~Fails(f, k, "device_add") /\ \A i \in 1..Len(w.bus) : w.bus[i].name # name

lscon_add_device(w, ls, name, np, k, f, drvs) ==
  IF Fails(f, k, "lsdev") THEN Ret(w, "ENOMEM")
  ELSE IF Fails(f, k, "ida") \/ FreeIds(w.ida) = {} THEN Ret(w, "ENOSPC")
  ELSE LET id == ida_simple_get(w.ida)
           w1 == [w EXCEPT !.ida = @ \cup {id},
                           !.ev = Append(@, Ev("alloc", id, "", TRUE))]
           d == [id |-> id, name |-> dev_set_name(name, id), node |-> np,
                 drv |-> <<>>, i2c0 |-> ls.i2c0, i2c1 |-> ls.i2c1, spi |-> ls.spi,
                 sec |-> NoSec]
       IN IF ~device_add_ok(w1, d.name, k, f) THEN Ret(w1, "EEXIST")
          ELSE Ret(bus_probe_device(
                     [w1 EXCEPT !.bus = Append(@, d),
                                !.ev = Append(@, Ev("add", id, "", TRUE))],
                     Len(w1.bus) + 1, k, f, drvs), "0")

\* the sequence without its idx-th element
RemoveAt(s, idx) == SubSeq(s, 1, idx - 1) \o SubSeq(s, idx + 1, Len(s))

\* device_del: unbinds a bound driver through ls_driver_remove and takes the
\* device off the bus
device_del(w, idx) ==
  LET d == w.bus[idx]
      w1 == IF d.drv # <<>> THEN ls_driver_remove([w EXCEPT !.sec = d.sec], d.id) ELSE w
  IN [w1 EXCEPT !.bus = RemoveAt(@, idx), !.sec = NoSec]

\* lscon_del_device: device_del, ida_simple_remove, kfree
lscon_del_device(w, idx) ==
  LET d == w.bus[idx]
  IN [device_del(w, idx) EXCEPT !.ida = ida_simple_remove(@, d.id),
                                !.ev = Append(@, Ev("del", d.id, "", TRUE))]

\* bus_for_each_dev(&ls_bus_type, NULL, NULL, lscon_del_dev)
RECURSIVE lscon_del_all(_)
lscon_del_all(w) == IF w.bus = <<>> THEN w ELSE lscon_del_all(lscon_del_device(w, 1))

(* ------------------------------ the state ------------------------------ *)
VARIABLES
  of_links,     \* phandles the connector node declares, of "i2c0","i2c1","spi"
  of_children,  \* the available child nodes of the connector node, in order
  ready,        \* links whose adapter / controller is registered
  ls,           \* struct ls_connector of the bound platform device
  drvdata,      \* the platform device's drvdata points to ls
  dev_root,     \* ls_bus_type.dev_root: "pdev" or "NULL"
  files,        \* bus attribute files that exist
  refs,         \* references the connector holds on each upstream handle
  registered,   \* names of the drivers registered on ls_bus_type
  bus,          \* the devices on ls_bus_type, in klist order
  ida,          \* ids allocated in ls_device_ida
  gpio,         \* LS GPIO lines claimed (devres of the connector device)
  i2c,          \* clients on the i2c0 adapter
  tpm,          \* the tpm_tis_spi device exists on the SPI controller
  leds,         \* number of leds-gpio platform devices
  wp_gpiod,     \* secure96_eeprom_pdata.wp_gpiod is set
  log,          \* what the last operation did, in order
  ret,          \* what the last operation returned
  last,         \* the last operation and its argument
  thr           \* the writes to the eject file that are under way, per thread

vars == <<of_links, of_children, ready, ls, drvdata, dev_root, files, refs,
          registered, bus, ida, gpio, i2c, tpm, leds, wp_gpiod, log, ret, last, thr>>

Links == {"i2c0", "i2c1", "spi"}
Handles == {"I2C_A", "I2C_B", "SPI"}
Compatibles == {"96boards,secure96", "vendor,other"}

Topologies ==
  UNION {[1..n -> Compatibles] : n \in 0..MaxNodes}

Node(i) == [idx |-> i, compatible |-> of_children[i]]

\* what an operation may be told to fail: calls of the connector (k = 0)
\* and calls made for the k-th device it handles
ConPoints == {"ls", "spi_get", "supported", "inject", "eject"}
BusPoints == {"lsdev", "ida", "device_add"}
DrvPoints == Range(Steps) \cup {"kzalloc"}

\* the fault points of the two specifications: the calls of the connector
\* and of the bus, and the calls of the secure96 driver
BusLevel == ConPoints \cup BusPoints
DrvLevel == DrvPoints

RECURSIVE UpTo(_, _)
UpTo(P, n) ==
  IF n = 0 THEN {{}}
  ELSE UpTo(P, n - 1) \cup {s \cup {p} : s \in UpTo(P, n - 1), p \in P}

\* the sets of at most MaxFaults faults, among the points P, of the calls
\* made for the n devices an operation handles, and of the calls of the
\* connector itself
DevFaults(P, n) == UpTo((1..n) \X (P \ ConPoints), MaxFaults)

ConFaults(P) == UpTo({0} \X (P \cap ConPoints), MaxFaults)

\* buffers written to the inject and eject files
Buffers ==
  { <<" ", "\t">> \o S_secure96 \o <<" ", "\n">>,
    S_foo \o <<"\n">>, S_mezzanine \o <<"0", "\n">> }

\* the threads that write to the eject file; a thread inside ls_eject_store
\* is at device_del ("del") or at ida_simple_remove ("ida") of the device it
\* found, whose id it read; freed: that ls_device was kfreed meanwhile
Threads == {"t1", "t2"}

Idle == [pc |-> "idle", id |-> -1, freed |-> FALSE]

World == [bus |-> bus, ida |-> ida, gpio |-> gpio, i2c |-> i2c, tpm |-> tpm,
          leds |-> leds, wp |-> wp_gpiod, ev |-> <<>>, sec |-> NoSec]

SetWorld(w) ==
  /\ bus' = w.bus /\ ida' = w.ida /\ gpio' = w.gpio /\ i2c' = w.i2c
  /\ tpm' = w.tpm /\ leds' = w.leds /\ wp_gpiod' = w.wp

\* the device trees looked at: at most one phandle is missing
InitTree ==
  /\ of_links \in {Links} \cup {Links \ {l} : l \in Links}
  /\ of_children \in Topologies

InitTreeDrv ==
  /\ of_links = Links
  /\ of_children \in {t \in Topologies : Len(t) <= 1}

InitRest ==
  /\ ready = {}
  /\ ls = NoLs /\ drvdata = FALSE /\ dev_root = "NULL" /\ files = {}
  /\ refs = [h \in Handles |-> 0]
  /\ registered = {}
  /\ bus = <<>> /\ ida = {} /\ gpio = {} /\ i2c = {} /\ tpm = FALSE /\ leds = 0
  /\ wp_gpiod = FALSE
  /\ log = <<>> /\ ret = "none" /\ last = [op |-> "boot", arg |-> <<>>]
  /\ thr = [t \in Threads |-> Idle]

Init == InitTree /\ InitRest

InitDrv == InitTreeDrv /\ InitRest

(* ----------------------------- lscon_probe ----------------------------- *)
\* c = [ls, refs, files, dev_root, ev, ret]: the connector side of a probe

\* of_get_i2c_adapter_by_node / spi_controller_get: take a reference
get_ref(c, field, h) ==
  [c EXCEPT !.ls[field] = h, !.refs[h] = @ + 1,
            !.ev = Append(@, Ev("get", -1, h, TRUE))]

\* i2c_put_adapter / spi_controller_put: drop it (nothing for NULL)
put_ref(c, field) ==
  IF c.ls[field] = "NULL" THEN c
  ELSE [c EXCEPT !.refs[c.ls[field]] = @ - 1,
                 !.ev = Append(@, Ev("put", -1, c.ls[field], TRUE))]

Failed(c, stage, r) ==
  [c EXCEPT !.ret = r, !.ev = Append(@, Ev("fail", -1, stage, FALSE))]

out_put_i2c0(c) == put_ref(c, "i2c0")

out_put_i2c1_bad(c) == put_ref(c, "i2c1")

out_put_i2c1(c) == out_put_i2c0(put_ref(c, "i2c1"))

\* bus_create_file: fails when the file already exists
bus_create_file_ok(c, file, f) == file \notin c.files /\ ~Fails(f, 0, file)

probe_create_files(c, f) ==
  LET c0 == [c EXCEPT !.dev_root = "pdev", !.ev = Append(@, Ev("set_root", -1, "", TRUE))]
  IN IF ~bus_create_file_ok(c0, "supported", f)
     THEN out_put_i2c1(Failed(c0, "supported", "EEXIST"))
     ELSE LET c1 == [c0 EXCEPT !.files = @ \cup {"supported"}]
          IN IF ~bus_create_file_ok(c1, "inject", f)
             THEN out_put_i2c1(Failed(c1, "inject", "EEXIST"))
             ELSE LET c2 == [c1 EXCEPT !.files = @ \cup {"inject"}]
                  IN IF ~bus_create_file_ok(c2, "eject", f)
                     THEN out_put_i2c1(Failed(c2, "eject", "EEXIST"))
                     ELSE [c2 EXCEPT !.files = @ \cup {"eject"}, !.ret = "0"]

probe_spi(c, f) ==
  IF "spi" \notin of_links THEN out_put_i2c1(Failed(c, "spi", "ENODEV"))
  ELSE IF "spi" \notin ready THEN out_put_i2c1(Failed(c, "spi", "EPROBE_DEFER"))
  ELSE IF Fails(f, 0, "spi_get") THEN out_put_i2c1(Failed(c, "spi", "ENODEV"))
  ELSE probe_create_files(get_ref(c, "spi", "SPI"), f)

probe_i2c1_bad(c, f) ==
  IF "i2c1" \notin of_links THEN out_put_i2c0(Failed(c, "i2c1", "ENODEV"))
  ELSE IF "i2c1" \notin ready THEN out_put_i2c0(Failed(c, "i2c1", "ENODEV"))
  ELSE probe_spi(get_ref(c, "i2c1", "I2C_B"), f)

probe_i2c1(c, f) ==
  IF "i2c1" \notin of_links THEN out_put_i2c0(Failed(c, "i2c1", "ENODEV"))
  ELSE IF "i2c1" \notin ready THEN out_put_i2c0(Failed(c, "i2c1", "EPROBE_DEFER"))
  ELSE probe_spi(get_ref(c, "i2c1", "I2C_B"), f)

probe_i2c0(c, f) ==
  IF "i2c0" \notin of_links THEN Failed(c, "i2c0", "ENODEV")
  ELSE IF "i2c0" \notin ready THEN Failed(c, "i2c0", "EPROBE_DEFER")
  ELSE probe_i2c1(get_ref(c, "i2c0", "I2C_A"), f)

probe_bridge(f) ==
  LET c == [ls |-> NoLs, refs |-> refs, files |-> files, dev_root |-> dev_root,
            ev |-> <<>>, ret |-> "0"]
  IN IF Fails(f, 0, "ls") THEN Failed(c, "ls", "ENOMEM")
     ELSE probe_i2c0(c, f)

\* for_each_available_child_of_node(np, child) lscon_add_device(ls, NULL, child)
\* (the value lscon_add_device returns is dropped; the log keeps it)
RECURSIVE probe_children_bad(_, _, _, _)
probe_children_bad(w, c, i, f) ==
  IF i > Len(of_children) THEN w
  ELSE LET r == lscon_add_device(w, c.ls, NoName, Node(i), i, f, registered)
           w1 == [r.w EXCEPT !.ev = Append(@, Ev("add_ret", i, r.ret, r.ret = "0"))]
       IN IF r.ret # "0" THEN w1 ELSE probe_children_bad(w1, c, i + 1, f)

RECURSIVE probe_children(_, _, _, _)
probe_children(w, c, i, f) ==
  IF i > Len(of_children) THEN w
  ELSE LET r == lscon_add_device(w, c.ls, NoName, Node(i), i, f, registered)
       IN probe_children([r.w EXCEPT !.ev = Append(@, Ev("add_ret", i, r.ret, r.ret = "0"))],
                         c, i + 1, f)

\* lscon_probe, with the faults f of its own calls and, for the children,
\* faults among the points P; after a failed probe the driver core frees
\* the devm memory and clears drvdata
lscon_probe(f, P) ==
  /\ ~drvdata
  /\ refs["SPI"] < MaxSpiRefs
  /\ LET c == probe_bridge(f)
     IN /\ refs' = c.refs /\ files' = c.files /\ dev_root' = c.dev_root
        /\ ret' = c.ret
        /\ IF c.ret = "0"
           THEN /\ ls' = c.ls /\ drvdata' = TRUE
                /\ \E fd \in DevFaults(P, Len(of_children)) :
                     LET w == probe_children([World EXCEPT !.ev = c.ev], c, 1, fd)
                     IN SetWorld(w) /\ log' = w.ev
           ELSE /\ ls' = NoLs /\ drvdata' = FALSE
                /\ SetWorld(World) /\ log' = c.ev
  /\ last' = [op |-> "attach", arg |-> <<>>]
  /\ UNCHANGED <<of_links, of_children, ready, registered, thr>>

(* ----------------------------- lscon_remove ---------------------------- *)
\* the connector side of lscon_remove, after the devices are deleted
remove_bridge_bad(c) ==
  LET c0 == [c EXCEPT !.dev_root = "NULL", !.ev = Append(@, Ev("clear_root", -1, "", TRUE))]
      c1 == put_ref(c0, "spi")
      c2 == put_ref(c1, "i2c0")
  IN put_ref(c2, "i2c1")

remove_bridge(c) ==
  LET c0 == [c EXCEPT !.dev_root = "NULL", !.ev = Append(@, Ev("clear_root", -1, "", TRUE))]
      c1 == put_ref(c0, "spi")
      c2 == put_ref(c1, "i2c1")
  IN put_ref(c2, "i2c0")

\* lscon_remove as a whole: delete the devices, then the connector side
remove_all_bad(w, c) ==
  LET c1 == remove_bridge([c EXCEPT !.ev = w.ev])
      w1 == lscon_del_all([w EXCEPT !.ev = c1.ev])
  IN [w |-> w1, c |-> [c1 EXCEPT !.ev = w1.ev]]

remove_all(w, c) ==
  LET w1 == lscon_del_all(w)
  IN [w |-> w1, c |-> remove_bridge([c EXCEPT !.ev = w1.ev])]

\* once lscon_remove has returned the driver core releases the devres of
\* the connector device (the GPIO lines still claimed) and clears drvdata
lscon_remove ==
  /\ drvdata
  /\ LET r == remove_all(World, [ls |-> ls, refs |-> refs, files |-> files,
                                 dev_root |-> dev_root, ev |-> <<>>, ret |-> "0"])
     IN /\ SetWorld([r.w EXCEPT !.gpio = {}])
        /\ refs' = r.c.refs /\ dev_root' = r.c.dev_root /\ log' = r.c.ev
  /\ ls' = NoLs /\ drvdata' = FALSE /\ ret' = "0"
  /\ last' = [op |-> "detach", arg |-> <<>>]
  /\ UNCHANGED <<of_links, of_children, ready, files, registered, thr>>

(* ------------------------ inject / eject stores ------------------------ *)
\* the write is killed by a NULL pointer dereference: nothing else happens
Oops(op, buf) ==
  /\ ret' = "oops" /\ log' = <<>> /\ last' = [op |-> op, arg |-> buf]
  /\ UNCHANGED <<of_links, of_children, ready, ls, drvdata, dev_root, files, refs,
                 registered, bus, ida, gpio, i2c, tpm, leds, wp_gpiod, thr>>

\* return count, nothing done
NoOp(op, buf) ==
  /\ ret' = "count" /\ log' = <<>> /\ last' = [op |-> op, arg |-> buf]
  /\ UNCHANGED <<of_links, of_children, ready, ls, drvdata, dev_root, files, refs,
                 registered, bus, ida, gpio, i2c, tpm, leds, wp_gpiod, thr>>

\* bus_for_each_drv(&ls_bus_type, NULL, devname, ls_inject_match)
inject_matched_bad(devname) == TRUE

inject_matched(devname) == \E drv \in registered : ls_inject_match(drv, devname)

\* ls_inject_store.  ls = dev_get_drvdata(ls_bus_type.dev_root) is read at
\* entry and used only once a driver matched: with dev_root NULL the read is
\* undefined, it faults at entry or is delayed until ls is used
ls_inject_store(buf, P) ==
  /\ "inject" \in files
  /\ LET devname == strstrip(buf)
     IN IF dev_root = "NULL"
        THEN \/ Oops("inject", buf)
             \/ ~inject_matched(devname) /\ NoOp("inject", buf)
        ELSE IF ~inject_matched(devname) THEN NoOp("inject", buf)
        ELSE IF ~drvdata THEN Oops("inject", buf)
        ELSE \E f \in DevFaults(P, 1) :
             LET r == lscon_add_device(World, ls, devname, NoNode, 1, f, registered)
             IN /\ SetWorld(r.w)
                /\ log' = Append(r.w.ev, Ev("add_ret", 1, r.ret, r.ret = "0"))
                /\ ret' = "count" /\ last' = [op |-> "inject", arg |-> buf]
                /\ UNCHANGED <<of_links, of_children, ready, ls, drvdata, dev_root,
                               files, refs, registered, thr>>

\* bus_find_device_by_name: position of the first device with that name, 0 if none
bus_find_device_by_name(devname) ==
  IF \E i \in 1..Len(bus) : bus[i].name = devname
  THEN CHOOSE i \in 1..Len(bus) :
         bus[i].name = devname /\ \A j \in 1..(i - 1) : bus[j].name # devname
  ELSE 0

\* ls_eject_store, with the same read of dev_root at entry
ls_eject_store(buf) ==
  /\ "eject" \in files
  /\ LET devname == strstrip(buf)
         idx == bus_find_device_by_name(devname)
     IN IF dev_root = "NULL"
        THEN \/ Oops("eject", buf)
             \/ idx = 0 /\ NoOp("eject", buf)
        ELSE IF idx = 0 THEN NoOp("eject", buf)
        ELSE IF ~drvdata THEN Oops("eject", buf)
        ELSE /\ LET w == lscon_del_device(World, idx)
                IN SetWorld(w) /\ log' = w.ev
             /\ ret' = "count" /\ last' = [op |-> "eject", arg |-> buf]
             /\ UNCHANGED <<of_links, of_children, ready, ls, drvdata, dev_root,
                            files, refs, registered, thr>>

(* --------------- ls_eject_store, run by concurrent threads ------------- *)
\* Nothing serialises two writes to the eject file: ls_eject_store takes no
\* lock, and bus_find_device_by_name finds a device until device_del has
\* taken it off the bus.  The store is cut at the calls where another thread
\* can run: after bus_find_device_by_name, after device_del.

\* position of the device with that id on the bus, 0 if none
IndexOfId(id) ==
  IF \E i \in 1..Len(bus) : bus[i].id = id
  THEN CHOOSE i \in 1..Len(bus) : bus[i].id = id
  ELSE 0

\* the thread dies in the kernel: the write never returns
ThreadOops(t, op, buf) ==
  /\ thr' = [thr EXCEPT ![t] = Idle]
  /\ ret' = "oops" /\ log' = <<>> /\ last' = [op |-> op, arg |-> buf]
  /\ UNCHANGED <<of_links, of_children, ready, ls, drvdata, dev_root, files, refs,
                 registered, bus, ida, gpio, i2c, tpm, leds, wp_gpiod>>

\* lines 214-229: the reads at entry, strstrip, bus_find_device_by_name;
\* a thread that found the device goes on to lscon_del_device
ls_eject_find(t, buf) ==
  /\ thr[t].pc = "idle"
  /\ "eject" \in files
  /\ LET devname == strstrip(buf)
         idx == bus_find_device_by_name(devname)
     IN IF dev_root = "NULL"
        THEN \/ Oops("eject", buf)
             \/ idx = 0 /\ NoOp("eject", buf)
        ELSE IF idx = 0 THEN NoOp("eject", buf)
        ELSE IF ~drvdata THEN Oops("eject", buf)
        ELSE /\ thr' = [thr EXCEPT ![t] = [pc |-> "del", id |-> bus[idx].id,
                                           freed |-> FALSE]]
             /\ log' = <<>> /\ ret' = "none"
             /\ last' = [op |-> "eject_find", arg |-> buf]
             /\ UNCHANGED <<of_links, of_children, ready, ls, drvdata, dev_root,
                            files, refs, registered, bus, ida, gpio, i2c, tpm,
                            leds, wp_gpiod>>

\* line 130: device_del(&lsdev->dev).  On a device another thread has
\* already deleted, or on a freed ls_device, the call is undefined: the
\* thread dies or the call returns without effect
ls_eject_del(t) ==
  /\ thr[t].pc = "del"
  /\ LET idx == IndexOfId(thr[t].id)
     IN IF ~thr[t].freed /\ idx # 0
        THEN /\ LET w == device_del(World, idx)
                IN SetWorld(w) /\ log' = w.ev
             /\ thr' = [thr EXCEPT ![t].pc = "ida"]
             /\ ret' = "none" /\ last' = [op |-> "eject_del", arg |-> <<>>]
             /\ UNCHANGED <<of_links, of_children, ready, ls, drvdata, dev_root,
                            files, refs, registered>>
        ELSE \/ ThreadOops(t, "eject_del", <<>>)
             \/ /\ thr' = [thr EXCEPT ![t].pc = "ida"]
                /\ log' = <<>> /\ ret' = "none"
                /\ last' = [op |-> "eject_del", arg |-> <<>>]
                /\ UNCHANGED <<of_links, of_children, ready, ls, drvdata, dev_root,
                               files, refs, registered, bus, ida, gpio, i2c, tpm,
                               leds, wp_gpiod>>

\* lines 131-132 and 231-233: ida_simple_remove(&ls_device_ida, lsdev->id),
\* kfree(lsdev), return count.  The log keeps whether the id was allocated
\* when it was removed; the other threads that hold this ls_device now hold
\* a freed one.  On a freed ls_device the read of lsdev->id is undefined:
\* the thread dies or reads the old id
ls_eject_free(t) ==
  /\ thr[t].pc = "ida"
  /\ \/ thr[t].freed /\ ThreadOops(t, "eject_free", <<>>)
     \/ /\ ida' = ida_simple_remove(ida, thr[t].id)
        /\ log' = <<Ev("ida_remove", thr[t].id, "", thr[t].id \in ida)>>
        /\ thr' = [u \in Threads |->
                     IF u = t THEN Idle
                     ELSE IF thr[u].pc # "idle" /\ thr[u].id = thr[t].id
                          THEN [thr[u] EXCEPT !.freed = TRUE]
                          ELSE thr[u]]
        /\ ret' = "count" /\ last' = [op |-> "eject_free", arg |-> <<>>]
        /\ UNCHANGED <<of_links, of_children, ready, ls, drvdata, dev_root,
                       files, refs, registered, bus, gpio, i2c, tpm, leds,
                       wp_gpiod>>

(* ------------------- driver registration, providers -------------------- *)
\* driver_attach: every unbound device the new driver matches is probed
RECURSIVE driver_attach(_, _, _, _)
driver_attach(w, drv, i, f) ==
  IF i > Len(w.bus) THEN w
  ELSE driver_attach(bus_probe_device(w, i, i, f, {drv}), drv, i + 1, f)

\* ls_driver_register: driver_register adds the driver and attaches it
ls_driver_register(drv, f) ==
  /\ drv \notin registered
  /\ registered' = registered \cup {drv}
  /\ LET w == driver_attach(World, drv, 1, f)
     IN SetWorld(w) /\ log' = w.ev
  /\ ret' = "0" /\ last' = [op |-> "register", arg |-> drv]
  /\ UNCHANGED <<of_links, of_children, ready, ls, drvdata, dev_root, files, refs, thr>>

\* driver_detach: the driver is removed from every device bound to it
RECURSIVE driver_detach(_, _, _)
driver_detach(w, drv, i) ==
  IF i > Len(w.bus) THEN w
  ELSE IF w.bus[i].drv # drv THEN driver_detach(w, drv, i + 1)
  ELSE LET w1 == ls_driver_remove([w EXCEPT !.sec = w.bus[i].sec], w.bus[i].id)
       IN driver_detach([w1 EXCEPT !.bus[i].drv = <<>>, !.bus[i].sec = NoSec,
                                   !.sec = NoSec], drv, i + 1)

ls_driver_unregister(drv) ==
  /\ drv \in registered
  /\ registered' = registered \ {drv}
  /\ LET w == driver_detach(World, drv, 1)
     IN SetWorld(w) /\ log' = w.ev
  /\ ret' = "0" /\ last' = [op |-> "unregister", arg |-> drv]
  /\ UNCHANGED <<of_links, of_children, ready, ls, drvdata, dev_root, files, refs, thr>>

\* the adapter / controller behind a link gets registered
ProviderUp(l) ==
  /\ l \notin ready
  /\ ready' = ready \cup {l}
  /\ log' = <<>> /\ ret' = "0" /\ last' = [op |-> "provider", arg |-> <<l>>]
  /\ UNCHANGED <<of_links, of_children, ls, drvdata, dev_root, files, refs,
                 registered, bus, ida, gpio, i2c, tpm, leds, wp_gpiod, thr>>

\* the operations, told which calls may fail
Attach(P) == \E f \in ConFaults(P) : lscon_probe(f, P)
Detach == lscon_remove
Inject(P) == \E buf \in Buffers : ls_inject_store(buf, P)
Eject == \E buf \in Buffers : ls_eject_store(buf)
Register(P) ==
  \E drv \in Drivers : \E f \in DevFaults(P \cap DrvPoints, Len(bus)) : ls_driver_register(drv, f)
Unregister == \E drv \in Drivers : ls_driver_unregister(drv)
Provider == \E l \in Links : ProviderUp(l)

\* the connector and the bus, with failures of their own calls
Next ==
  \/ Attach(BusLevel) \/ Detach \/ Inject(BusLevel) \/ Eject
  \/ Register(BusLevel) \/ Unregister \/ Provider

Spec == Init /\ [][Next]_vars

\* the same operations, with failures of the calls of the secure96 driver
NextDrv ==
  \/ Attach(DrvLevel) \/ Detach \/ Inject(DrvLevel) \/ Eject
  \/ Register(DrvLevel) \/ Unregister \/ Provider

SpecDrv == InitDrv /\ [][NextDrv]_vars

\* writes to the inject and eject files by concurrent threads, on a
\* connector that stays attached and without failing calls: a write to
\* inject runs at once, a write to eject in the steps above
EjectFind == \E t \in Threads : \E buf \in Buffers : ls_eject_find(t, buf)
EjectDel == \E t \in Threads : ls_eject_del(t)
EjectFree == \E t \in Threads : ls_eject_free(t)

NextConc ==
  \/ Attach({}) \/ Inject({}) \/ Register({}) \/ Provider
  \/ EjectFind \/ EjectDel \/ EjectFree

SpecConc == InitDrv /\ [][NextConc]_vars

(* ======================================================================= *)
(*                              the claims                                 *)
(* ======================================================================= *)
LiveIds == {bus[i].id : i \in 1..Len(bus)}

\* the log entries with operation op
Entries(op) == {k \in 1..Len(log) : log[k].op = op}

\* C1: no two live devices have the same id, every live id is allocated in
\* the pool, and an id released by a destroy is free in the pool afterwards,
\* so that the next create (which takes the lowest free id) can hand it out
C1_UniqueIds ==
  /\ \A i, j \in 1..Len(bus) : i # j => bus[i].id # bus[j].id
  /\ LiveIds \subseteq ida
  /\ \A k \in Entries("del") :
       (\A m \in Entries("alloc") : m < k)
         => log[k].dev \in FreeIds(ida) /\ ida_simple_get(ida) <= log[k].dev

\* an id is reused: a device created later than a live one has a lower id
C1_Witness ==
  /\ last.op = "inject"
  /\ \E i, j \in 1..Len(bus) : i < j /\ bus[j].id < bus[i].id

\* the resources of the log entries with operation op, in log order
RECURSIVE ResOf(_, _)
ResOf(l, op) ==
  IF l = <<>> THEN <<>>
  ELSE (IF Head(l).op = op THEN <<Head(l).res>> ELSE <<>>) \o ResOf(Tail(l), op)

IsPrefix(s, t) == Len(s) <= Len(t) /\ s = SubSeq(t, 1, Len(s))

\* the stage at which the last attach failed ("none" if it did not)
FailStage(l) == IF ResOf(l, "fail") = <<>> THEN "none" ELSE ResOf(l, "fail")[1]

\* C2: an attach that fails while resolving i2c0, i2c1 or spi has resolved
\* the links in the order I2C-A, I2C-B, SPI, has put back what it resolved
\* in reverse order, and leaves the connector holding none of it
C2_ResolveRollback ==
  [][(last'.op = "attach" /\ FailStage(log') \in Links)
       => /\ IsPrefix(ResOf(log', "get"), <<"I2C_A", "I2C_B", "SPI">>)
          /\ ResOf(log', "put") = Reverse(ResOf(log', "get"))
          /\ refs' = refs
          /\ refs'["I2C_A"] = 0 /\ refs'["I2C_B"] = 0
          /\ ls' = NoLs /\ ret' # "0"]_vars

\* the SPI link fails after both I2C adapters were resolved
C2_Witness ==
  /\ last.op = "attach" /\ FailStage(log) = "spi"
  /\ ResOf(log, "get") = <<"I2C_A", "I2C_B">>
  /\ Len(ResOf(log, "put")) = 2

\* C3: an attach that returns an error holds no I2C-A, I2C-B or SPI
\* reference and leaves the active-connector reference unset
C3_FailedAttachClean ==
  (last.op = "attach" /\ ret # "0")
    => /\ \A h \in Handles : refs[h] = 0
       /\ dev_root = "NULL"

\* the resources of the entries (op, dev) of a log, in log order
RECURSIVE ResOfDev(_, _, _)
ResOfDev(l, op, dev) ==
  IF l = <<>> THEN <<>>
  ELSE (IF Head(l).op = op /\ Head(l).dev = dev THEN <<Head(l).res>> ELSE <<>>)
       \o ResOfDev(Tail(l), op, dev)

\* C4: when secure96_probe fails, what it released is exactly what it had
\* acquired, once each, in reverse order of acquisition (nothing of the
\* failing step or of a later one)
C4_ProbeRollback ==
  \A k \in Entries("probe_ret") :
    ~log[k].ok =>
      /\ ResOfDev(log, "rel", log[k].dev) = Reverse(ResOfDev(log, "acq", log[k].dev))
      /\ ResOfDev(log, "relnull", log[k].dev) = <<>>

\* the resource classes the remove order is stated on: the four LED lines
\* count as one class
ClassOf(res) == IF res \in Range(ledinfos) THEN "ledline" ELSE res

RECURSIVE Classes(_)
Classes(s) ==
  IF s = <<>> THEN <<>>
  ELSE IF Len(s) > 1 /\ ClassOf(s[1]) = ClassOf(s[2]) THEN Classes(Tail(s))
  ELSE <<ClassOf(s[1])>> \o Classes(Tail(s))

\* C5: secure96_remove of a device whose probe succeeded releases what that
\* probe acquired, in the reverse of the acquisition order (TPM, interrupt
\* GPIO, reset GPIO, hash, crypto, EEPROM, write-protect GPIO, LED group,
\* LED lines)
C5_RemoveReverse ==
  [][\A i \in 1..Len(bus) :
       (bus[i].drv # <<>> /\ \E k \in Entries("remove")' : log'[k].dev = bus[i].id)
         => Classes(ResOfDev(log', "rel", bus[i].id)) = Reverse(Classes(bus[i].sec.acq))]_vars

\* number of entries (op, dev) of a log
Count(l, op, dev) == Cardinality({k \in 1..Len(l) : l[k].op = op /\ l[k].dev = dev})

\* C6: detach deletes every device on the bus, calls the driver's remove
\* once for each bound one and never for an unbound one, and does all of it
\* before it puts the SPI controller or an I2C adapter; no device is on the
\* bus while the connector holds no reference on a handle the device has
C6_DetachOrder ==
  [][/\ last'.op = "detach"
        => /\ bus' = <<>>
           /\ Cardinality(Entries("del")') = Len(bus)
           /\ \A i \in 1..Len(bus) :
                /\ Count(log', "del", bus[i].id) = 1
                /\ Count(log', "remove", bus[i].id) = (IF bus[i].drv # <<>> THEN 1 ELSE 0)
           /\ Cardinality(Entries("put")') = 3
           /\ \A k \in Entries("del")' \cup Entries("remove")' \cup Entries("rel")' :
                \A m \in Entries("put")' : k < m
      /\ \A i \in 1..Len(bus') :
           /\ bus'[i].i2c0 = "I2C_A" /\ bus'[i].i2c1 = "I2C_B" /\ bus'[i].spi = "SPI"
           /\ \A h \in Handles : refs'[h] > 0]_vars

\* a detach with three children, one of them bound and the others not
C6_Witness ==
  /\ last.op = "detach"
  /\ Cardinality(Entries("del")) = 3
  /\ Cardinality(Entries("remove")) = 1
  /\ Cardinality(Entries("put")) = 3

\* C7 as stated: detach puts SPI, I2C-B, I2C-A in this order and clears the
\* active-connector reference only after the three of them
C7_ClearRootLast ==
  last.op = "detach"
    => /\ ResOf(log, "put") = <<"SPI", "I2C_B", "I2C_A">>
       /\ \A k \in Entries("clear_root") : \A m \in Entries("put") : m < k

\* C7 as amended: after the devices are deleted, detach clears the
\* active-connector reference and then puts SPI, I2C-B, I2C-A in this order
C7_ClearRootFirst ==
  last.op = "detach"
    => /\ ResOf(log, "put") = <<"SPI", "I2C_B", "I2C_A">>
       /\ Cardinality(Entries("clear_root")) = 1
       /\ dev_root = "NULL"
       /\ \A k \in Entries("clear_root") :
            /\ \A m \in Entries("put") : k < m
            /\ \A m \in Entries("del") : m < k

\* a detach that deleted a device
C7_Witness ==
  /\ last.op = "detach"
  /\ Entries("del") # {}
  /\ Len(ResOf(log, "put")) = 3
  /\ dev_root = "NULL"

\* the devices, the bindings and the id pool are as before the step
SameDevices == bus' = bus /\ ida' = ida

\* C8: an inject whose trimmed name is no registered driver's name reports
\* success and changes nothing: same devices, bindings and id pool, no probe
C8_InjectUnknownNoop ==
  [][(last'.op = "inject" /\ ~inject_matched(strstrip(last'.arg)))
       => /\ ret' = "count"
          /\ SameDevices
          /\ Entries("probe")' = {}]_vars

\* C9: an eject whose trimmed name is no live device's name reports success
\* and changes nothing: same devices, bindings and id pool, no remove
C9_EjectUnknownNoop ==
  [][(last'.op = "eject" /\ bus_find_device_by_name(strstrip(last'.arg)) = 0)
       => /\ ret' = "count"
          /\ SameDevices
          /\ Entries("remove")' = {}]_vars

\* the device inject(buf) is to create on the connector ls, bound or not
Injected(d, buf) ==
  /\ d.name = strstrip(buf)
  /\ d.node = NoNode
  /\ d.i2c0 = ls.i2c0 /\ d.i2c1 = ls.i2c1 /\ d.spi = ls.spi

\* C10 as stated: with the connector attached, an inject of a registered
\* driver's name surrounded by whitespace creates exactly one device, named
\* by the trimmed name, with no node and the connector's handles, bound to
\* that driver, whose probe was called exactly once
C10_InjectCreatesBound ==
  [][(last'.op = "inject" /\ drvdata /\ dev_root = "pdev"
        /\ inject_matched(strstrip(last'.arg)))
       => /\ Len(bus') = Len(bus) + 1
          /\ SubSeq(bus', 1, Len(bus)) = bus
          /\ Injected(bus'[Len(bus')], last'.arg)
          /\ bus'[Len(bus')].drv = strstrip(last'.arg)
          /\ Count(log', "probe", bus'[Len(bus')].id) = 1]_vars

\* C10 as amended: such an inject calls lscon_add_device once with the
\* trimmed name.  If that call fails (no id, or device_add fails, as it does
\* when a live device already has the name) no device is created.  Otherwise
\* exactly one device is created, named by the trimmed name, with no node
\* and the connector's handles; the driver's probe is called exactly once
\* for it, and the device is bound to that driver exactly if the probe
\* returned 0.  The other devices are untouched and inject reports success
C10_InjectCreates ==
  [][(last'.op = "inject" /\ drvdata /\ dev_root = "pdev"
        /\ inject_matched(strstrip(last'.arg)))
       => /\ ret' = "count"
          /\ Cardinality(Entries("add_ret")') = 1
          /\ (\E i \in 1..Len(bus) : bus[i].name = strstrip(last'.arg))
               => \A k \in Entries("add_ret")' : ~log'[k].ok
          /\ \A k \in Entries("add_ret")' :
               IF ~log'[k].ok THEN bus' = bus /\ Entries("probe")' = {}
               ELSE /\ Len(bus') = Len(bus) + 1
                    /\ SubSeq(bus', 1, Len(bus)) = bus
                    /\ Injected(bus'[Len(bus')], last'.arg)
                    /\ bus'[Len(bus')].id \notin ida
                    /\ Cardinality(Entries("probe")') = 1
                    /\ Count(log', "probe", bus'[Len(bus')].id) = 1
                    /\ Cardinality(Entries("probe_ret")') = 1
                    /\ \A m \in Entries("probe_ret")' :
                         bus'[Len(bus')].drv =
                           (IF log'[m].ok THEN strstrip(last'.arg) ELSE <<>>)]_vars

\* "secure96" written with whitespace around it made one device of that
\* name, bound to the secure96 driver by one probe
C10_Witness ==
  /\ last = [op |-> "inject", arg |-> <<" ", "\t">> \o S_secure96 \o <<" ", "\n">>]
  /\ ret = "count"
  /\ Len(bus) >= 1
  /\ bus[Len(bus)].name = S_secure96 /\ bus[Len(bus)].drv = S_secure96
  /\ bus[Len(bus)].node = NoNode /\ bus[Len(bus)].i2c0 = "I2C_A"
  /\ Cardinality(Entries("probe")) = 1
  /\ \A k \in Entries("probe_ret") : log[k].ok

\* C11: an eject of the name of a live bound device returns count, calls the
\* driver's remove exactly once and for that device only, takes exactly that
\* device off the bus and leaves every other device as it was, and puts its
\* id back into the pool, where the next create can be given it
C11_EjectDestroys ==
  [][LET idx == bus_find_device_by_name(strstrip(last'.arg))
     IN (last'.op = "eject" /\ idx # 0 /\ bus[idx].drv # <<>>)
          => /\ ret' = "count"
             /\ bus' = RemoveAt(bus, idx)
             /\ \A i \in 1..Len(bus') : bus'[i].id # bus[idx].id
             /\ Cardinality(Entries("remove")') = 1
             /\ Count(log', "remove", bus[idx].id) = 1
             /\ Entries("probe")' = {}
             /\ ida' = ida \ {bus[idx].id}
             /\ bus[idx].id \in FreeIds(ida')
             /\ ida_simple_get(ida') <= bus[idx].id]_vars

\* the bound device secure96 was ejected while another device stays live
C11_Witness ==
  /\ last = [op |-> "eject", arg |-> <<" ", "\t">> \o S_secure96 \o <<" ", "\n">>]
  /\ ret = "count"
  /\ Cardinality(Entries("remove")) = 1
  /\ Cardinality(Entries("del")) = 1
  /\ bus # <<>>
  /\ \A i \in 1..Len(bus) : bus[i].name # S_secure96
  /\ \E k \in Entries("del") : log[k].dev \notin ida

\* the decimal digits of n
RECURSIVE Decimal(_)
Decimal(n) ==
  IF n < 10 THEN <<ToString(n)>> ELSE Decimal(n \div 10) \o <<ToString(n % 10)>>

\* C12: a live device that was created from a topology node (always without
\* an explicit name) is named "mezzanine" followed by the decimal digits of
\* its own id, the id the allocator returned for its create; a device that
\* was created with an explicit name (by inject, without a node) has that
\* name, a registered driver's name, whatever its id is
C12_DisplayNames ==
  \A i \in 1..Len(bus) :
    IF bus[i].node # NoNode
    THEN bus[i].name = S_mezzanine \o Decimal(bus[i].id)
    ELSE bus[i].name \in Drivers

\* a node's device with an id other than 0 next to a named device with an
\* id other than 0
C12_Witness ==
  /\ \E i \in 1..Len(bus) :
       bus[i].node # NoNode /\ bus[i].id = 1 /\ bus[i].name = S_mezzanine \o <<"1">>
  /\ \E i \in 1..Len(bus) :
       bus[i].node = NoNode /\ bus[i].id = 2 /\ bus[i].name = S_secure96


\* the first of i2c0, i2c1, spi that is not declared or whose provider is
\* not registered ("none" if the three can be looked up)
FirstUnresolved ==
  LET bad(l) == l \notin of_links \/ l \notin ready
  IN IF bad("i2c0") THEN "i2c0" ELSE IF bad("i2c1") THEN "i2c1"
     ELSE IF bad("spi") THEN "spi" ELSE "none"

\* what the claim has attach return for the unresolved link l
LinkError(l) == IF l \notin of_links THEN "ENODEV" ELSE "EPROBE_DEFER"

\* a failed attach looked up each provider at most once and left the
\* providers as they were
NoRetry ==
  /\ ready' = ready
  /\ \A h \in Handles : Cardinality({k \in Entries("get")' : log'[k].res = h}) <= 1

C14_InjectFailureSurfaced ==
  [][(last'.op = "inject" /\ drvdata /\ dev_root = "pdev"
        /\ inject_matched(strstrip(last'.arg))
        /\ \E k \in Entries("add_ret")' \cup Entries("probe_ret")' : ~log'[k].ok)
       => ret' # "count"]_vars


\* the steps of secure96_probe that acquire a GPIO line
GpioSteps == {res \in Range(Steps) : PinOf(res) # "none"}

\* C15: ls_put_gpiod is only called on a line that is claimed at that
\* moment, and the rollback of a failed secure96_probe only puts lines that
\* this probe acquired; this includes the write-protect line, whose handle
\* is kept in secure96_eeprom_pdata across probes
C15_GpioReleasedOnce ==
  /\ \A k \in Entries("rel") : log[k].res \in GpioSteps => log[k].ok
  /\ \A k \in Entries("probe_ret") :
       ~log[k].ok =>
         \A r \in Range(ResOfDev(log, "rel", log[k].dev)) \cap GpioSteps :
           r \in Range(ResOfDev(log, "acq", log[k].dev))

\* C16: after every operation the ids allocated in the pool are exactly the
\* ids of the devices on the bus
C16_PoolConsistent == ida = LiveIds

\* C18: a secure96_probe that returns 0 has acquired the four LED lines, the
\* LED group, the EEPROM, the crypto and the hash peripheral, the reset and
\* the interrupt line and the TPM (the write-protect line, which the probe
\* treats as optional, is not asked for)
C18_ProbeSuccessComplete ==
  \A k \in Entries("probe_ret") :
    log[k].ok =>
      Range(Steps) \ {"wp"} \subseteq Range(ResOfDev(log, "acq", log[k].dev))


\* the attach step has tried to create a device for every child node of the
\* connector node, in order, has returned 0, and the devices on the bus
\* are those of the children whose creation succeeded
ChildrenAttempted ==
  /\ ret' = "0"
  /\ Cardinality(Entries("add_ret")') = Len(of_children)
  /\ \A i \in 1..Len(of_children) :
       \E k \in Entries("add_ret")' :
         /\ log'[k].dev = i
         /\ log'[k].ok <=> \E j \in 1..Len(bus') : bus'[j].node = Node(i)
  /\ Len(bus') = Cardinality({k \in Entries("add_ret")' : log'[k].ok})

\* the attach step has taken the references on the three upstream handles
Resolved == last'.op = "attach" /\ ResOf(log', "get") = <<"I2C_A", "I2C_B", "SPI">>

\* C19 as stated: once i2c0, i2c1 and spi are resolved, attach tries to
\* create every child, a child that fails stops neither the others nor the
\* attach, and the children that were created are live
C19_ChildrenAttempted ==
  [][Resolved => ChildrenAttempted]_vars

\* C19 as amended: the same once the three links are resolved and the three
\* control files are created; if the creation of a control file fails the
\* attach fails and no child is created
C19_ChildrenAfterFiles ==
  [][Resolved
       => IF FailStage(log') = "none" THEN ChildrenAttempted
          ELSE /\ FailStage(log') \in {"supported", "inject", "eject"}
               /\ ret' # "0"
               /\ bus' = <<>>
               /\ Entries("add_ret")' = {}]_vars

\* the creation of the first child failed, the second child is live
C19_Witness ==
  /\ last.op = "attach" /\ ret = "0"
  /\ \E k \in Entries("add_ret") : log[k].dev = 1 /\ ~log[k].ok
  /\ \E k \in Entries("add_ret") : log[k].dev = 2 /\ log[k].ok
  /\ Len(bus) = 1 /\ bus[1].node.idx = 2

\* C20: an inject of a registered driver's name, and an eject of a live
\* device's name, finds the active-connector reference set and pointing to
\* an attached connector, and completes
C20_ValidConnector ==
  [][(\/ last'.op = "inject" /\ inject_matched(strstrip(last'.arg))
      \/ last'.op = "eject" /\ bus_find_device_by_name(strstrip(last'.arg)) # 0)
       => /\ dev_root = "pdev"
          /\ drvdata
          /\ ret' = "count"]_vars


\* C17: whatever the interleaving of the writes to inject and eject, the
\* ids of the live devices are pairwise distinct and allocated in the pool,
\* and ida_simple_remove is only called on an id that is allocated at that
\* moment (no id is released twice)
C17_AtomicIds ==
  /\ \A i, j \in 1..Len(bus) : i # j => bus[i].id # bus[j].id
  /\ LiveIds \subseteq ida
  /\ \A k \in Entries("ida_remove") : log[k].ok


====
